---- MODULE Spec2Model ----
(***************************************************************************)
(* Model of the frame loop of the arcade shooter in src/juego:             *)
(* ControlJuego (control_juego.py) with the entities Figura, Proyectil and *)
(* Moneda.  Jugador, Enemigo and Vector2D are imported by the sources but  *)
(* their files are not part of src/; the few operations of them the        *)
(* session calls are modelled from spec.md and marked as such.             *)
(*                                                                         *)
(* Units.  Time is counted in ticks of 0.5 s (the granularity of           *)
(* intervalo_enemigo), lengths in pixels.  Unit vectors are stored         *)
(* multiplied by Escala.                                                   *)
(*                                                                         *)
(* One call of ControlJuego.actualizar is the chain of steps               *)
(*   Actualizar -> ActualizarObjetos -> VerificarColisionesProyectiles     *)
(*   -> VerificarColisionJugadorEnemigo -> RespawnControlado               *)
(*   -> VerificarFinJuego -> ActualizarMonedas                             *)
(*   -> VerificarRecoleccionMonedas -> EliminarInactivos                   *)
(* driven by the variable fase: once a call has started, the only enabled  *)
(* step is the next statement group of the method, so the call always runs *)
(* to its end; events are handled only between calls (fase = "reposo").    *)
(***************************************************************************)
EXTENDS Integers, Sequences, FiniteSets, TLC

(***************************************************************************)
(* Bounds of the model                                                     *)
(***************************************************************************)
\* a session is followed for this many ticks after its construction or restart
MaxReloj == 12
\* the same for the long campaign of SpecNiveles, played with fewer choices
MaxRelojNiveles == 42
\* the same for the coins of SpecMonedas, whose life is VidaMoneda ticks
MaxRelojMonedas == 23
\* the same for the first frames of SpecPresencia
MaxRelojPresencia == 8
\* a shot is fired only while fewer projectiles are in the player's list
MaxProyectiles == 1
\* a shot is fired only while the coins on the screen and the projectiles in
\* flight (each can earn one more coin) number fewer than this
MaxMonedas == 1
\* calls of mantener_en_pantalla followed on one figure
MaxLlamadas == 2

(***************************************************************************)
(* Program constants                                                       *)
(***************************************************************************)
Ancho == 800
Alto == 600
Escala == 10
PuntosIniciales == 10
EnemigosParaSiguienteNivel == 3
CooldownDano == 2
IntervaloInicial == 10
IntervaloMinimo == 4
NumFondos == 5
MargenRespawn == 50
RadioFigura == 20
RadioProyectil == 8
RadioMoneda == 15
VidaProyectil == 4
VidaMoneda == 20
VelocidadProyectil == 150
VelocidadEnemigo == 100
PenalizacionDano == 2
ValorMonedaMaximo == 3

Radios == {10, 15, 20, 25, 30}
\* tipos_disponibles of Moneda.__init__ ("dano" stands for the kind spelled
\* with a tilde in the source)
TiposDisponibles == {"velocidad", "dano", "rapidez_disparo", "puntos"}

(***************************************************************************)
(* Sampled inputs.  All sample points lie on the line through the player's *)
(* start (Ancho \div 4, Alto \div 2) and the first enemy's start           *)
(* (Ancho \div 2, Alto \div 4), 50 px apart, so that normalising a         *)
(* difference of two of them is exact (a 3-4-5 triangle).                  *)
(***************************************************************************)
Punto(k) == [x |-> (Ancho \div 4) + 40 * k, y |-> (Alto \div 2) - 30 * k]

DTs == {1, 2}
DTsInvalidos == {0, -1}
PuntosRaton == {Punto(0), Punto(3)}
\* respawnear_enemigo draws inside the margin and from Radios
PuntosAparicion ==
    {p \in {Punto(5)} : /\ p.x >= MargenRespawn /\ p.x <= Ancho - MargenRespawn
                        /\ p.y >= MargenRespawn /\ p.y <= Alto - MargenRespawn}
RadiosMuestra == Radios \cap {30}
Vidas == {1, 2}
TiposMuestra == TiposDisponibles \cap {"velocidad", "puntos"}
Objetivos == {Punto(5)}

\* the narrower choices of the long campaign
DTsNiveles == {1}
VidasNiveles == {1}
TiposNiveles == TiposDisponibles \cap {"puntos"}

\* the scenes of SpecEntidades: the player at its start, an enemy and a coin
\* placed at the distance where they touch the player or one pixel off it
Desvios == {-1, 0, 1}
RadiosEntidades == {RadioFigura} \cup RadiosMuestra
PosicionesEnemigo ==
    {[x |-> Punto(1).x + e, y |-> Punto(1).y] : e \in Desvios}
PosicionesMoneda ==
    {[x |-> Punto(0).x + RadioFigura + RadioMoneda + e, y |-> Punto(0).y] :
        e \in Desvios}
\* a coin about to run out
VidasMoneda == {1, 2}

\* positive infinity as the argument of actualizar: a time above every time
\* and every distance of the model, which is all the code makes of it (it
\* passes the test dt <= 0 like any other positive number)
Infinito == 1000
\* the arguments tried in SpecEventos, valid or not
DTsEventos == DTs \cup DTsInvalidos

\* the frames of SpecMonedas: short ones, and one that takes a coin made in
\* the frame before to the very end of its life
DTsMonedas == {1, VidaMoneda - 1}

VARIABLES
    fase,                       \* position inside ControlJuego.actualizar
    reloj,                      \* ticks played since construction or restart
    desde_dano,                 \* history: ticks played since the last deduction
                                \* for contact (kept at CooldownDano above it),
                                \* -1 before the first one
    dt,                         \* the argument of the running call (0 between calls)
    retorno,                    \* observation: how the last event or call ended
    mejoras_aplicadas,          \* observation: the calls of jugador.aplicar_mejora
                                \* made by the running call of actualizar
    puntos,
    nivel_actual,
    enemigos_eliminados_nivel,
    intervalo_enemigo,
    fondo_actual,
    jugando,
    game_over,
    tiempo_desde_ultimo_dano,
    tiempo_enemigo,
    jugador,                    \* position of the player
    proyectiles,                \* jugador.proyectiles
    enemigos,
    monedas

vars == <<fase, reloj, desde_dano, dt, retorno, mejoras_aplicadas, puntos, nivel_actual, enemigos_eliminados_nivel,
          intervalo_enemigo, fondo_actual, jugando, game_over,
          tiempo_desde_ultimo_dano, tiempo_enemigo, jugador, proyectiles,
          enemigos, monedas>>

(***************************************************************************)
(* Arithmetic helpers                                                      *)
(***************************************************************************)
Min(a, b) == IF a <= b THEN a ELSE b
Max(a, b) == IF a >= b THEN a ELSE b

\* floor of the square root
RECURSIVE RaizEntre(_, _, _)
RaizEntre(n, lo, hi) ==
    IF hi - lo <= 1
    THEN lo
    ELSE IF ((lo + hi) \div 2) * ((lo + hi) \div 2) <= n
         THEN RaizEntre(n, (lo + hi) \div 2, hi)
         ELSE RaizEntre(n, lo, (lo + hi) \div 2)
\* every distance taken is below 2 * (Ancho + Alto), which keeps the squares small
Raiz(n) == RaizEntre(n, 0, Min(n, 2 * (Ancho + Alto)) + 1)

(***************************************************************************)
(* Vector2D (not in src/): magnitude and normalisation as spec.md section  *)
(* 3 describes them.  A unit vector is stored multiplied by Escala.        *)
(***************************************************************************)
Magnitud(vx, vy) == Raiz(vx * vx + vy * vy)

Normalizar(vx, vy) ==
    IF Magnitud(vx, vy) = 0
    THEN [x |-> 0, y |-> 0]
    ELSE [x |-> (vx * Escala) \div Magnitud(vx, vy),
          y |-> (vy * Escala) \div Magnitud(vx, vy)]

(***************************************************************************)
(* Figura                                                                  *)
(***************************************************************************)
\* seeded defect: figures that only touch do not collide
ColisionEstricta(a, b) ==
    IF ~(a.activo /\ b.activo)
    THEN FALSE
    ELSE (a.x - b.x) * (a.x - b.x) + (a.y - b.y) * (a.y - b.y)
            < (a.radio + b.radio) * (a.radio + b.radio)

\* seeded defect: only the receiver's active flag is looked at
ColisionSoloPropio(a, b) ==
    IF ~a.activo
    THEN FALSE
    ELSE (a.x - b.x) * (a.x - b.x) + (a.y - b.y) * (a.y - b.y)
            <= (a.radio + b.radio) * (a.radio + b.radio)

\* Figura.colision: both active and distance of the centers <= sum of the
\* radii.  The comparison is made on the squares, which is the same
\* comparison for the non-negative numbers involved.
\* seeded defect: the figures collide by distance alone, active or not
ColisionSinActivos(a, b) ==
    (a.x - b.x) * (a.x - b.x) + (a.y - b.y) * (a.y - b.y)
        <= (a.radio + b.radio) * (a.radio + b.radio)

Colision(a, b) ==
    IF ~(a.activo /\ b.activo)
    THEN FALSE
    ELSE (a.x - b.x) * (a.x - b.x) + (a.y - b.y) * (a.y - b.y)
            <= (a.radio + b.radio) * (a.radio + b.radio)

\* Figura.__init__ with a surface and a colour of the right types: the
\* position, int(radio) of an integer radius, active
NuevaFigura(x, y, radio) ==
    [x |-> x, y |-> y, radio |-> radio, activo |-> TRUE]

\* seeded defect: the clamp forgets the radius
MantenerEnPantallaSinRadio(f, ancho, alto) ==
    [f EXCEPT !.x = Min(ancho, Max(0, f.x)),
              !.y = Min(alto, Max(0, f.y))]

\* Figura.mantener_en_pantalla on a screen of ancho x alto: max, then min
MantenerEnPantalla(f, ancho, alto) ==
    [f EXCEPT !.x = Min(ancho - f.radio, Max(f.radio, f.x)),
              !.y = Min(alto - f.radio, Max(f.radio, f.y))]

(***************************************************************************)
(* Proyectil                                                               *)
(***************************************************************************)
\* Proyectil.__init__: radius 8, normalised direction, 2.0 s to live
NuevoProyectil(x, y, vx, vy) ==
    [x |-> x, y |-> y, radio |-> RadioProyectil, activo |-> TRUE,
     dx |-> Normalizar(vx, vy).x, dy |-> Normalizar(vx, vy).y,
     tiempo_vida |-> VidaProyectil]

\* seeded defect: the edge of the screen without the margin of the radius
FueraDePantallaSinMargen(p) ==
    \/ p.x < 0
    \/ p.x > Ancho
    \/ p.y < 0
    \/ p.y > Alto

\* lines 147-152 of proyectil.py
FueraDePantalla(p) ==
    \/ p.x < -p.radio
    \/ p.x > Ancho + p.radio
    \/ p.y < -p.radio
    \/ p.y > Alto + p.radio

\* Proyectil._verificar_desactivacion
VerificarDesactivacion(p) ==
    IF ~p.activo
    THEN p
    ELSE IF FueraDePantalla(p) \/ p.tiempo_vida <= 0
         THEN [p EXCEPT !.activo = FALSE]
         ELSE p

\* Proyectil.actualizar(dt), dt > 0
ProyectilActualizar(p, d) ==
    IF ~p.activo
    THEN p
    ELSE VerificarDesactivacion(
            [p EXCEPT !.x = p.x + (p.dx * VelocidadProyectil * d) \div Escala,
                      !.y = p.y + (p.dy * VelocidadProyectil * d) \div Escala,
                      !.tiempo_vida = p.tiempo_vida - d])

(***************************************************************************)
(* Moneda                                                                  *)
(***************************************************************************)
\* Moneda.__init__ with tipo_mejora = None: the kind is random.choice
NuevaMoneda(x, y, tipo, valor) ==
    [x |-> x, y |-> y, radio |-> RadioMoneda, activo |-> TRUE,
     tipo_mejora |-> tipo, valor_mejora |-> valor,
     tiempo_vida |-> VidaMoneda]

\* seeded defect: the flag is set from the life left, on every coin
MonedaActualizarRevive(m, d) ==
    [m EXCEPT !.tiempo_vida = m.tiempo_vida - d,
              !.activo = (m.tiempo_vida - d > 0)]

\* seeded defect: a coin with no life left stays active
MonedaActualizarEstricta(m, d) ==
    IF ~m.activo
    THEN m
    ELSE IF m.tiempo_vida - d < 0
         THEN [m EXCEPT !.tiempo_vida = m.tiempo_vida - d, !.activo = FALSE]
         ELSE [m EXCEPT !.tiempo_vida = m.tiempo_vida - d]

\* Moneda.actualizar(dt), dt > 0
MonedaActualizar(m, d) ==
    IF ~m.activo
    THEN m
    ELSE IF m.tiempo_vida - d <= 0
         THEN [m EXCEPT !.tiempo_vida = m.tiempo_vida - d, !.activo = FALSE]
         ELSE [m EXCEPT !.tiempo_vida = m.tiempo_vida - d]

\* Moneda.recolectar: the coin after the call and the dictionary returned
MonedaRecolectar(m) ==
    [moneda |-> [m EXCEPT !.activo = FALSE],
     tipo |-> m.tipo_mejora,
     valor |-> m.valor_mejora,
     puntos |-> IF m.tipo_mejora = "puntos" THEN m.valor_mejora ELSE 0]

(***************************************************************************)
(* Enemigo and Jugador (not in src/), from spec.md section 3               *)
(***************************************************************************)
NuevoEnemigo(x, y, radio, vida) ==
    [x |-> x, y |-> y, radio |-> radio, activo |-> TRUE, vida |-> vida]

\* Enemigo.recibir_dano: decrements the health, a lethal hit deactivates
\* the enemy; returns whether the hit was lethal
RecibirDano(e) ==
    IF e.vida - 1 <= 0
    THEN [enemigo |-> [e EXCEPT !.vida = e.vida - 1, !.activo = FALSE],
          letal |-> TRUE]
    ELSE [enemigo |-> [e EXCEPT !.vida = e.vida - 1], letal |-> FALSE]

\* Enemigo.actualizar(dt): moves toward the target at its speed, not past it
EnemigoActualizar(e, objetivo, d) ==
    IF Magnitud(objetivo.x - e.x, objetivo.y - e.y) <= VelocidadEnemigo * d
    THEN [e EXCEPT !.x = objetivo.x, !.y = objetivo.y]
    ELSE [e EXCEPT
            !.x = e.x + (Normalizar(objetivo.x - e.x, objetivo.y - e.y).x
                            * VelocidadEnemigo * d) \div Escala,
            !.y = e.y + (Normalizar(objetivo.x - e.x, objetivo.y - e.y).y
                            * VelocidadEnemigo * d) \div Escala]

NuevoJugador(x, y) == [x |-> x, y |-> y, radio |-> RadioFigura, activo |-> TRUE]

(***************************************************************************)
(* The session as a record, so that the methods of ControlJuego are        *)
(* operators from session to session.                                      *)
(***************************************************************************)
Sesion ==
    [puntos |-> puntos,
     nivel_actual |-> nivel_actual,
     enemigos_eliminados_nivel |-> enemigos_eliminados_nivel,
     intervalo_enemigo |-> intervalo_enemigo,
     fondo_actual |-> fondo_actual,
     jugando |-> jugando,
     game_over |-> game_over,
     tiempo_desde_ultimo_dano |-> tiempo_desde_ultimo_dano,
     tiempo_enemigo |-> tiempo_enemigo,
     jugador |-> jugador,
     proyectiles |-> proyectiles,
     enemigos |-> enemigos,
     monedas |-> monedas]

Asignar(s) ==
    /\ puntos' = s.puntos
    /\ nivel_actual' = s.nivel_actual
    /\ enemigos_eliminados_nivel' = s.enemigos_eliminados_nivel
    /\ intervalo_enemigo' = s.intervalo_enemigo
    /\ fondo_actual' = s.fondo_actual
    /\ jugando' = s.jugando
    /\ game_over' = s.game_over
    /\ tiempo_desde_ultimo_dano' = s.tiempo_desde_ultimo_dano
    /\ tiempo_enemigo' = s.tiempo_enemigo
    /\ jugador' = s.jugador
    /\ proyectiles' = s.proyectiles
    /\ enemigos' = s.enemigos
    /\ monedas' = s.monedas

Activos(lista) == {i \in 1..Len(lista) : lista[i].activo}
Inactivos(lista) == {i \in 1..Len(lista) : ~lista[i].activo}
SoloActivos(lista) == SelectSeq(lista, LAMBDA f : f.activo)

(***************************************************************************)
(* ControlJuego: the methods as operators on the session                   *)
(***************************************************************************)
\* seeded defect: the kill counter of the level is not reset
SubirNivelSinReinicio(s) ==
    [s EXCEPT
        !.nivel_actual = s.nivel_actual + 1,
        !.fondo_actual = Min(s.fondo_actual + 1, NumFondos - 1),
        !.intervalo_enemigo = Max(IntervaloMinimo, s.intervalo_enemigo - 1)]

\* seeded defect: the spawn interval is not floored
SubirNivelSinPiso(s) ==
    [s EXCEPT
        !.nivel_actual = s.nivel_actual + 1,
        !.enemigos_eliminados_nivel = 0,
        !.fondo_actual = Min(s.fondo_actual + 1, NumFondos - 1),
        !.intervalo_enemigo = s.intervalo_enemigo - 1]

\* seeded defect: the background index runs past the last background
SubirNivelSinTope(s) ==
    [s EXCEPT
        !.nivel_actual = s.nivel_actual + 1,
        !.enemigos_eliminados_nivel = 0,
        !.fondo_actual = s.fondo_actual + 1,
        !.intervalo_enemigo = Max(IntervaloMinimo, s.intervalo_enemigo - 1)]

\* subir_nivel
SubirNivel(s) ==
    [s EXCEPT
        !.nivel_actual = s.nivel_actual + 1,
        !.enemigos_eliminados_nivel = 0,
        !.fondo_actual = Min(s.fondo_actual + 1, NumFondos - 1),
        !.intervalo_enemigo = Max(IntervaloMinimo, s.intervalo_enemigo - 1)]

\* _generar_moneda_recompensa(x, y); tipo is the kind random.choice picks
GenerarMonedaRecompensa(s, x, y, tipo) ==
    [s EXCEPT !.monedas =
        Append(s.monedas,
               NuevaMoneda(x, y, tipo,
                           Min(ValorMonedaMaximo, s.nivel_actual \div 2 + 1)))]

\* respawnear_enemigo; pos, radio (and the health) are the random draws
RespawnearEnemigo(s, pos, radio, vida) ==
    [s EXCEPT !.enemigos =
        Append(s.enemigos, NuevoEnemigo(pos.x, pos.y, radio, vida))]

\* inicializar_juego: a new player and the first enemy
InicializarJuego(s, vida) ==
    [s EXCEPT
        !.jugador = NuevoJugador(Ancho \div 4, Alto \div 2),
        !.proyectiles = <<>>,
        !.enemigos = Append(s.enemigos,
                            NuevoEnemigo(Ancho \div 2, Alto \div 4,
                                         RadioFigura, vida))]

\* seeded defect: every hit is rewarded, lethal or not
ResolverParPremiaGolpe(s, i, j, tipo) ==
    IF ~Colision(s.proyectiles[i], s.enemigos[j])
    THEN s
    ELSE LET r == RecibirDano(s.enemigos[j])
             s1 == [s EXCEPT !.enemigos[j] = r.enemigo]
             s2 == [s1 EXCEPT
                      !.puntos = s1.puntos + 1,
                      !.enemigos_eliminados_nivel =
                          s1.enemigos_eliminados_nivel + 1]
             s3 == GenerarMonedaRecompensa(s2, r.enemigo.x, r.enemigo.y, tipo)
             s4 == IF s3.enemigos_eliminados_nivel >= EnemigosParaSiguienteNivel
                   THEN SubirNivel(s3)
                   ELSE s3
         IN  [s4 EXCEPT !.proyectiles[i].activo = FALSE]

\* seeded defect: the projectile stays active after its hit
ResolverParSinDesactivar(s, i, j, tipo) ==
    IF ~Colision(s.proyectiles[i], s.enemigos[j])
    THEN s
    ELSE LET r == RecibirDano(s.enemigos[j])
             s1 == [s EXCEPT !.enemigos[j] = r.enemigo]
             s2 == [s1 EXCEPT
                      !.puntos = s1.puntos + 1,
                      !.enemigos_eliminados_nivel =
                          s1.enemigos_eliminados_nivel + 1]
             s3 == GenerarMonedaRecompensa(s2, r.enemigo.x, r.enemigo.y, tipo)
             s4 == IF s3.enemigos_eliminados_nivel >= EnemigosParaSiguienteNivel
                   THEN SubirNivel(s3)
                   ELSE s3
         IN  IF r.letal /\ ~r.enemigo.activo THEN s4 ELSE s1

\* seeded defect: the level is raised before the coin is made
ResolverParSubeAntes(s, i, j, tipo) ==
    IF ~Colision(s.proyectiles[i], s.enemigos[j])
    THEN s
    ELSE LET r == RecibirDano(s.enemigos[j])
             s1 == [s EXCEPT !.enemigos[j] = r.enemigo]
             s2 == [s1 EXCEPT
                      !.puntos = s1.puntos + 1,
                      !.enemigos_eliminados_nivel =
                          s1.enemigos_eliminados_nivel + 1]
             s3 == IF s2.enemigos_eliminados_nivel >= EnemigosParaSiguienteNivel
                   THEN SubirNivel(s2)
                   ELSE s2
             s4 == GenerarMonedaRecompensa(s3, r.enemigo.x, r.enemigo.y, tipo)
             s5 == IF r.letal /\ ~r.enemigo.activo THEN s4 ELSE s1
         IN  [s5 EXCEPT !.proyectiles[i].activo = FALSE]

\* the body of the innermost if of _verificar_colisiones_proyectiles for
\* projectile i and enemy j (lines 308-323)
ResolverPar(s, i, j, tipo) ==
    IF ~Colision(s.proyectiles[i], s.enemigos[j])
    THEN s
    ELSE LET r == RecibirDano(s.enemigos[j])
             s1 == [s EXCEPT !.enemigos[j] = r.enemigo]
             s2 == [s1 EXCEPT
                      !.puntos = s1.puntos + 1,
                      !.enemigos_eliminados_nivel =
                          s1.enemigos_eliminados_nivel + 1]
             s3 == GenerarMonedaRecompensa(s2, r.enemigo.x, r.enemigo.y, tipo)
             s4 == IF s3.enemigos_eliminados_nivel >= EnemigosParaSiguienteNivel
                   THEN SubirNivel(s3)
                   ELSE s3
             s5 == IF r.letal /\ ~r.enemigo.activo THEN s4 ELSE s1
         IN  [s5 EXCEPT !.proyectiles[i].activo = FALSE]

\* the two nested loops of _verificar_colisiones_proyectiles, from pair (i, j)
RECURSIVE ColisionesDesde(_, _, _, _)
ColisionesDesde(s, i, j, tipos) ==
    IF i > Len(s.proyectiles)
    THEN s
    ELSE IF j > Len(s.enemigos)
         THEN ColisionesDesde(s, i + 1, 1, tipos)
         ELSE ColisionesDesde(ResolverPar(s, i, j, tipos[j]), i, j + 1, tipos)

\* seeded defect: contact is penalised without regard to the cooldown
DebeDanarSinCooldown(s, j) == Colision(s.jugador, s.enemigos[j])

\* the condition of _verificar_colision_jugador_enemigo for enemy j
DebeDanar(s, j) ==
    /\ Colision(s.jugador, s.enemigos[j])
    /\ s.tiempo_desde_ultimo_dano >= CooldownDano

\* seeded defect: the deduction does not reset the timer
RECURSIVE DanoDesdeSinReinicio(_, _)
DanoDesdeSinReinicio(s, j) ==
    IF j > Len(s.enemigos)
    THEN s
    ELSE IF DebeDanar(s, j)
         THEN DanoDesdeSinReinicio(
                 [s EXCEPT !.puntos = s.puntos - PenalizacionDano], j + 1)
         ELSE DanoDesdeSinReinicio(s, j + 1)

\* the loop of _verificar_colision_jugador_enemigo, from enemy j
RECURSIVE DanoDesde(_, _)
DanoDesde(s, j) ==
    IF j > Len(s.enemigos)
    THEN s
    ELSE IF DebeDanar(s, j)
         THEN DanoDesde([s EXCEPT !.puntos = s.puntos - PenalizacionDano,
                                  !.tiempo_desde_ultimo_dano = 0], j + 1)
         ELSE DanoDesde(s, j + 1)

\* seeded defect: the score is not brought back to 0
FinJuegoSinAjuste(s) ==
    IF s.puntos <= 0 /\ ~s.game_over
    THEN [s EXCEPT !.game_over = TRUE, !.jugando = FALSE]
    ELSE s

\* seeded defect: the session keeps running after the game is over
FinJuegoSigueJugando(s) ==
    IF s.puntos <= 0 /\ ~s.game_over
    THEN [s EXCEPT !.game_over = TRUE, !.puntos = 0]
    ELSE s

\* the game-over check of actualizar (lines 278-281)
FinJuego(s) ==
    IF s.puntos <= 0 /\ ~s.game_over
    THEN [s EXCEPT !.game_over = TRUE, !.jugando = FALSE, !.puntos = 0]
    ELSE s

\* seeded defect: a coin is collected whether it is active or not
RECURSIVE RecoleccionDesdeSinGuardia(_, _, _, _)
RecoleccionDesdeSinGuardia(s, copia, i, quitadas) ==
    IF i > Len(copia)
    THEN s
    ELSE IF Colision(s.jugador, [copia[i] EXCEPT !.activo = TRUE])
         THEN RecoleccionDesdeSinGuardia(
                [s EXCEPT
                    !.puntos = IF MonedaRecolectar(copia[i]).puntos > 0
                               THEN s.puntos + MonedaRecolectar(copia[i]).puntos
                               ELSE s.puntos,
                    !.monedas = SubSeq(s.monedas, 1, i - quitadas - 1)
                                \o SubSeq(s.monedas, i - quitadas + 1,
                                          Len(s.monedas))],
                copia, i + 1, quitadas + 1)
         ELSE RecoleccionDesdeSinGuardia(s, copia, i + 1, quitadas)

\* the loop of _verificar_recoleccion_monedas over the copy of the list,
\* from its i-th coin; s.monedas is the live list, from which a collected
\* coin is removed at once (list.remove, line 413); quitadas counts the
\* coins already removed, so copia[i] is s.monedas[i - quitadas]
RECURSIVE RecoleccionDesde(_, _, _, _)
RecoleccionDesde(s, copia, i, quitadas) ==
    IF i > Len(copia)
    THEN s
    ELSE IF copia[i].activo /\ Colision(s.jugador, copia[i])
         THEN RecoleccionDesde(
                [s EXCEPT
                    !.puntos = IF MonedaRecolectar(copia[i]).puntos > 0
                               THEN s.puntos + MonedaRecolectar(copia[i]).puntos
                               ELSE s.puntos,
                    !.monedas = SubSeq(s.monedas, 1, i - quitadas - 1)
                                \o SubSeq(s.monedas, i - quitadas + 1,
                                          Len(s.monedas))],
                copia, i + 1, quitadas + 1)
         ELSE RecoleccionDesde(s, copia, i + 1, quitadas)

\* the calls of jugador.aplicar_mejora (line 403) the loop of
\* _verificar_recoleccion_monedas makes from the i-th coin of the copy on;
\* collecting a coin changes neither the player nor the other coins
RECURSIVE LlamadasMejoraDesde(_, _, _)
LlamadasMejoraDesde(s, copia, i) ==
    IF i > Len(copia)
    THEN 0
    ELSE (IF copia[i].activo /\ Colision(s.jugador, copia[i]) THEN 1 ELSE 0)
            + LlamadasMejoraDesde(s, copia, i + 1)

\* seeded defect: the coins of the finished game stay on the screen
ReiniciarJuegoSinLimpiarMonedas(s, vida) ==
    InicializarJuego(
        [s EXCEPT
            !.game_over = FALSE,
            !.jugando = TRUE,
            !.puntos = PuntosIniciales,
            !.nivel_actual = 1,
            !.enemigos_eliminados_nivel = 0,
            !.intervalo_enemigo = IntervaloInicial,
            !.fondo_actual = 0,
            !.enemigos = <<>>,
            !.proyectiles = <<>>,
            !.tiempo_desde_ultimo_dano = 0,
            !.tiempo_enemigo = 0],
        vida)

\* seeded defect: the restart keeps the kills counted towards the next level
ReiniciarJuegoSinContador(s, vida) ==
    InicializarJuego(
        [s EXCEPT
            !.game_over = FALSE,
            !.jugando = TRUE,
            !.puntos = PuntosIniciales,
            !.nivel_actual = 1,
            !.intervalo_enemigo = IntervaloInicial,
            !.fondo_actual = 0,
            !.enemigos = <<>>,
            !.monedas = <<>>,
            !.proyectiles = <<>>,
            !.tiempo_desde_ultimo_dano = 0,
            !.tiempo_enemigo = 0],
        vida)

\* seeded defect: the restart raises jugando and leaves game_over set
ReiniciarJuegoSinBajarFin(s, vida) ==
    InicializarJuego(
        [s EXCEPT
            !.jugando = TRUE,
            !.puntos = PuntosIniciales,
            !.nivel_actual = 1,
            !.enemigos_eliminados_nivel = 0,
            !.intervalo_enemigo = IntervaloInicial,
            !.fondo_actual = 0,
            !.enemigos = <<>>,
            !.monedas = <<>>,
            !.proyectiles = <<>>,
            !.tiempo_desde_ultimo_dano = 0,
            !.tiempo_enemigo = 0],
        vida)

\* reiniciar_juego
ReiniciarJuego(s, vida) ==
    InicializarJuego(
        [s EXCEPT
            !.game_over = FALSE,
            !.jugando = TRUE,
            !.puntos = PuntosIniciales,
            !.nivel_actual = 1,
            !.enemigos_eliminados_nivel = 0,
            !.intervalo_enemigo = IntervaloInicial,
            !.fondo_actual = 0,
            !.enemigos = <<>>,
            !.monedas = <<>>,
            !.proyectiles = <<>>,
            !.tiempo_desde_ultimo_dano = 0,
            !.tiempo_enemigo = 0],
        vida)

\* the timers are only compared with >= against CooldownDano and against
\* intervalo_enemigo <= IntervaloInicial: above those values they are kept
\* at them, every larger value being the same to every test of the code
Acumular(t, d, tope) == Min(t + d, tope)

(***************************************************************************)
(* Initial state: ControlJuego.__init__                                    *)
(***************************************************************************)
\* the session ControlJuego.__init__ builds; vida is the health the first
\* enemy is given
NuevoControlJuego(vida) ==
    InicializarJuego(
        [puntos |-> PuntosIniciales,
         nivel_actual |-> 1,
         enemigos_eliminados_nivel |-> 0,
         intervalo_enemigo |-> IntervaloInicial,
         fondo_actual |-> 0,
         jugando |-> TRUE,
         game_over |-> FALSE,
         tiempo_desde_ultimo_dano |-> 0,
         tiempo_enemigo |-> 0,
         jugador |-> NuevoJugador(0, 0),
         proyectiles |-> <<>>,
         enemigos |-> <<>>,
         monedas |-> <<>>],
        vida)

Construido(vidas) ==
    /\ fase = "reposo"
    /\ reloj = 0
    /\ desde_dano = -1
    /\ dt = 0
    /\ retorno = [op |-> "nada"]
    /\ mejoras_aplicadas = 0
    /\ \E vida \in vidas :
          /\ puntos = NuevoControlJuego(vida).puntos
          /\ nivel_actual = NuevoControlJuego(vida).nivel_actual
          /\ enemigos_eliminados_nivel =
                NuevoControlJuego(vida).enemigos_eliminados_nivel
          /\ intervalo_enemigo = NuevoControlJuego(vida).intervalo_enemigo
          /\ fondo_actual = NuevoControlJuego(vida).fondo_actual
          /\ jugando = NuevoControlJuego(vida).jugando
          /\ game_over = NuevoControlJuego(vida).game_over
          /\ tiempo_desde_ultimo_dano =
                NuevoControlJuego(vida).tiempo_desde_ultimo_dano
          /\ tiempo_enemigo = NuevoControlJuego(vida).tiempo_enemigo
          /\ jugador = NuevoControlJuego(vida).jugador
          /\ proyectiles = NuevoControlJuego(vida).proyectiles
          /\ enemigos = NuevoControlJuego(vida).enemigos
          /\ monedas = NuevoControlJuego(vida).monedas

Init == Construido(Vidas)
InitNiveles == Construido(VidasNiveles)

(***************************************************************************)
(* manejar_eventos, one event at a time, between two frames                *)
(***************************************************************************)
\* how an event or a call ended is noted in retorno where a specification
\* observes it (SpecEventos); elsewhere retorno is left alone
Anotar(observado, op) ==
    retorno' = IF observado THEN [op |-> op] ELSE retorno

\* pygame.QUIT
EventoQuit(observado) ==
    /\ fase = "reposo"
    /\ jugando' = FALSE
    /\ Anotar(observado, "salir")
    /\ UNCHANGED <<fase, reloj, desde_dano, dt, mejoras_aplicadas, puntos, nivel_actual, enemigos_eliminados_nivel,
                   intervalo_enemigo, fondo_actual, game_over,
                   tiempo_desde_ultimo_dano, tiempo_enemigo, jugador,
                   proyectiles, enemigos, monedas>>

\* KEYDOWN with K_ESCAPE
EventoEscape(observado) ==
    /\ fase = "reposo"
    /\ jugando' = FALSE
    /\ Anotar(observado, "salir")
    /\ UNCHANGED <<fase, reloj, desde_dano, dt, mejoras_aplicadas, puntos, nivel_actual, enemigos_eliminados_nivel,
                   intervalo_enemigo, fondo_actual, game_over,
                   tiempo_desde_ultimo_dano, tiempo_enemigo, jugador,
                   proyectiles, enemigos, monedas>>

\* seeded defect: the key restarts the game whether it is over or not
EventoReiniciarSiempre(vidas, observado) ==
    /\ fase = "reposo"
    /\ \E vida \in vidas : Asignar(ReiniciarJuego(Sesion, vida))
    /\ reloj' = 0
    /\ Anotar(observado, IF game_over THEN "reinicio" ELSE "tecla_ignorada")
    /\ UNCHANGED <<fase, desde_dano, dt, mejoras_aplicadas>>

\* KEYDOWN with K_SPACE or K_RETURN
EventoReiniciar(vidas, observado) ==
    /\ fase = "reposo"
    /\ IF game_over
       THEN /\ \E vida \in vidas : Asignar(ReiniciarJuego(Sesion, vida))
            /\ reloj' = 0
       ELSE /\ Asignar(Sesion)
            /\ UNCHANGED reloj
    /\ Anotar(observado, IF game_over THEN "reinicio" ELSE "tecla_ignorada")
    /\ UNCHANGED <<fase, desde_dano, dt, mejoras_aplicadas>>

\* the shots the model follows: in Spec the player fires whenever the
\* bounds leave room, in the long campaign only single shots, with no
\* projectile in flight and no coin left on the screen
HayCupo ==
    /\ Len(proyectiles) < MaxProyectiles
    /\ Len(monedas) + Len(proyectiles) < MaxMonedas
PantallaDespejada == proyectiles = <<>> /\ monedas = <<>>
\* bursts: one projectile more than in Spec may be in flight, with no coin
\* left on the screen
EnRafaga == Len(proyectiles) <= MaxProyectiles /\ monedas = <<>>

\* seeded defect: the click fires whether the game is over or not
EventoDisparoSiempre(seguido, observado) ==
    /\ fase = "reposo"
    /\ seguido
    /\ \E objetivo \in Objetivos :
         proyectiles' = Append(proyectiles,
            NuevoProyectil(jugador.x, jugador.y,
                           objetivo.x - jugador.x,
                           objetivo.y - jugador.y))
    /\ Anotar(observado, IF game_over THEN "disparo_ignorado" ELSE "disparo")
    /\ UNCHANGED <<fase, reloj, desde_dano, dt, mejoras_aplicadas, puntos, nivel_actual, enemigos_eliminados_nivel,
                   intervalo_enemigo, fondo_actual, jugando, game_over,
                   tiempo_desde_ultimo_dano, tiempo_enemigo, jugador,
                   enemigos, monedas>>

\* MOUSEBUTTONDOWN with button 1 at objetivo: Jugador.disparar adds a
\* projectile at the player's position, directed at the click
EventoDisparo(seguido, observado) ==
    /\ fase = "reposo"
    /\ IF ~game_over
       THEN /\ seguido
            /\ \E objetivo \in Objetivos :
                 proyectiles' = Append(proyectiles,
                    NuevoProyectil(jugador.x, jugador.y,
                                   objetivo.x - jugador.x,
                                   objetivo.y - jugador.y))
       ELSE UNCHANGED proyectiles
    /\ Anotar(observado, IF game_over THEN "disparo_ignorado" ELSE "disparo")
    /\ UNCHANGED <<fase, reloj, desde_dano, dt, mejoras_aplicadas, puntos, nivel_actual, enemigos_eliminados_nivel,
                   intervalo_enemigo, fondo_actual, jugando, game_over,
                   tiempo_desde_ultimo_dano, tiempo_enemigo, jugador,
                   enemigos, monedas>>

(***************************************************************************)
(* actualizar(dt)                                                          *)
(***************************************************************************)
\* seeded defect: the timers are advanced before the argument is tested
ActualizarRechazadoTardio(observado) ==
    /\ fase = "reposo"
    /\ \E d \in DTsInvalidos :
          /\ d <= 0
          /\ Asignar([Sesion EXCEPT
                        !.tiempo_desde_ultimo_dano =
                            Acumular(tiempo_desde_ultimo_dano, d, CooldownDano),
                        !.tiempo_enemigo =
                            Acumular(tiempo_enemigo, d, IntervaloInicial)])
    /\ Anotar(observado, "ValueError")
    /\ UNCHANGED <<fase, reloj, desde_dano, dt, mejoras_aplicadas>>

\* dt <= 0: ValueError, nothing changes
ActualizarRechazado(observado) ==
    /\ fase = "reposo"
    /\ \E d \in DTsInvalidos : d <= 0
    /\ Anotar(observado, "ValueError")
    /\ UNCHANGED <<fase, reloj, desde_dano, dt, mejoras_aplicadas>>
    /\ Asignar(Sesion)

\* seeded defect: the timers are advanced before jugando is tested
ActualizarDetenidoAvanza(observado) ==
    /\ fase = "reposo"
    /\ ~jugando
    /\ \E d \in DTs :
          /\ d > 0
          /\ Asignar([Sesion EXCEPT
                        !.tiempo_desde_ultimo_dano =
                            Acumular(tiempo_desde_ultimo_dano, d, CooldownDano),
                        !.tiempo_enemigo =
                            Acumular(tiempo_enemigo, d, IntervaloInicial)])
    /\ Anotar(observado, "detenido")
    /\ UNCHANGED <<fase, reloj, desde_dano, dt, mejoras_aplicadas>>

\* not jugando: return
ActualizarDetenido(observado) ==
    /\ fase = "reposo"
    /\ \E d \in DTs : d > 0
    /\ ~jugando
    /\ Anotar(observado, "detenido")
    /\ UNCHANGED <<fase, reloj, desde_dano, dt, mejoras_aplicadas>>
    /\ Asignar(Sesion)

\* seeded defect: the time-based spawn does not look at the population
TemporizadoresSinLimite(s, d, pos, radio, vida) ==
    LET s1 == [s EXCEPT
                 !.tiempo_desde_ultimo_dano =
                     Acumular(s.tiempo_desde_ultimo_dano, d, CooldownDano),
                 !.tiempo_enemigo =
                     Acumular(s.tiempo_enemigo, d, IntervaloInicial)]
    IN  IF s1.tiempo_enemigo >= s1.intervalo_enemigo
        THEN [RespawnearEnemigo(s1, pos, radio, vida) EXCEPT !.tiempo_enemigo = 0]
        ELSE s1

\* seeded defect: the time-based spawn leaves its timer running
TemporizadoresSinReinicio(s, d, pos, radio, vida) ==
    LET s1 == [s EXCEPT
                 !.tiempo_desde_ultimo_dano =
                     Acumular(s.tiempo_desde_ultimo_dano, d, CooldownDano),
                 !.tiempo_enemigo =
                     Acumular(s.tiempo_enemigo, d, IntervaloInicial)]
    IN  IF s1.tiempo_enemigo >= s1.intervalo_enemigo
           /\ Cardinality(Activos(s1.enemigos)) < 3
        THEN RespawnearEnemigo(s1, pos, radio, vida)
        ELSE s1

\* lines 244-251: the timers and the time-based spawn
Temporizadores(s, d, pos, radio, vida) ==
    LET s1 == [s EXCEPT
                 !.tiempo_desde_ultimo_dano =
                     Acumular(s.tiempo_desde_ultimo_dano, d, CooldownDano),
                 !.tiempo_enemigo =
                     Acumular(s.tiempo_enemigo, d, IntervaloInicial)]
    IN  IF s1.tiempo_enemigo >= s1.intervalo_enemigo
           /\ Cardinality(Activos(s1.enemigos)) < 3
        THEN [RespawnearEnemigo(s1, pos, radio, vida) EXCEPT !.tiempo_enemigo = 0]
        ELSE s1

Actualizar(dts, vidas, tope) ==
    /\ fase = "reposo"
    /\ jugando
    /\ \E d \in dts, pos \in PuntosAparicion, radio \in RadiosMuestra,
          vida \in vidas :
          /\ d > 0
          /\ reloj + d <= tope
          /\ reloj' = reloj + d
          /\ desde_dano' = IF desde_dano = -1
                           THEN -1
                           ELSE Min(desde_dano + d, CooldownDano)
          /\ dt' = d
          /\ Asignar(Temporizadores(Sesion, d, pos, radio, vida))
    /\ retorno' = [op |-> "nada"]
    /\ fase' = "objetos"
    /\ UNCHANGED mejoras_aplicadas

\* actualizar(float('inf')): the argument passes the test of line 238 and
\* the frame runs with it; the session is not followed beyond this frame
ActualizarNoFinito(vidas, tope) ==
    /\ fase = "reposo"
    /\ jugando
    /\ ~(Infinito <= 0)
    /\ reloj < tope
    /\ reloj' = tope
    /\ desde_dano' = IF desde_dano = -1 THEN -1 ELSE CooldownDano
    /\ dt' = Infinito
    /\ \E pos \in PuntosAparicion, radio \in RadiosMuestra, vida \in vidas :
          Asignar(Temporizadores(Sesion, Infinito, pos, radio, vida))
    /\ retorno' = [op |-> "nada"]
    /\ fase' = "objetos"
    /\ UNCHANGED mejoras_aplicadas

\* lines 255-258: jugador.actualizar(dt), which follows the mouse and
\* advances the player's projectiles, then every active enemy
ActualizarObjetos ==
    /\ fase = "objetos"
    /\ \E raton \in PuntosRaton :
          /\ jugador' = [jugador EXCEPT !.x = raton.x, !.y = raton.y]
          /\ enemigos' = [j \in 1..Len(enemigos) |->
                            IF enemigos[j].activo
                            THEN EnemigoActualizar(enemigos[j], raton, dt)
                            ELSE enemigos[j]]
    /\ proyectiles' = [i \in 1..Len(proyectiles) |->
                          ProyectilActualizar(proyectiles[i], dt)]
    /\ fase' = "colisiones"
    /\ UNCHANGED <<reloj, desde_dano, dt, retorno, mejoras_aplicadas, puntos,
                   nivel_actual, enemigos_eliminados_nivel,
                   intervalo_enemigo, fondo_actual, jugando, game_over,
                   tiempo_desde_ultimo_dano, tiempo_enemigo, monedas>>

\* line 263
VerificarColisionesProyectiles(muestra) ==
    /\ fase = "colisiones"
    /\ \E tipos \in [1..Len(enemigos) -> muestra] :
          Asignar(ColisionesDesde(Sesion, 1, 1, tipos))
    /\ fase' = "dano"
    /\ UNCHANGED <<reloj, desde_dano, dt, retorno, mejoras_aplicadas>>

\* line 266
VerificarColisionJugadorEnemigo ==
    /\ fase = "dano"
    /\ Asignar(DanoDesde(Sesion, 1))
    /\ desde_dano' = IF puntos' < puntos THEN 0 ELSE desde_dano
    /\ fase' = "respawn"
    /\ UNCHANGED <<reloj, dt, retorno, mejoras_aplicadas>>

\* seeded defect: a replacement is spawned for the second enemy killed in
\* the frame as well
RespawnControladoPorBaja(vidas) ==
    /\ fase = "respawn"
    /\ IF Cardinality(Inactivos(enemigos)) > 0
          /\ Cardinality(Activos(enemigos)) < 5
       THEN \E pos \in PuntosAparicion, radio \in RadiosMuestra,
               vida \in vidas :
               Asignar(IF Cardinality(Inactivos(enemigos)) > 1
                       THEN RespawnearEnemigo(
                               RespawnearEnemigo(Sesion, pos, radio, vida),
                               pos, radio, vida)
                       ELSE RespawnearEnemigo(Sesion, pos, radio, vida))
       ELSE Asignar(Sesion)
    /\ fase' = "fin"
    /\ UNCHANGED <<reloj, desde_dano, dt, retorno, mejoras_aplicadas>>

\* seeded defect: no replacement is ever spawned
RespawnControladoNunca(vidas) ==
    /\ fase = "respawn"
    /\ \E vida \in vidas : Asignar(Sesion)
    /\ fase' = "fin"
    /\ UNCHANGED <<reloj, desde_dano, dt, retorno, mejoras_aplicadas>>

\* lines 269-275
RespawnControlado(vidas) ==
    /\ fase = "respawn"
    /\ IF Cardinality(Inactivos(enemigos)) > 0
          /\ Cardinality(Activos(enemigos)) < 5
       THEN \E pos \in PuntosAparicion, radio \in RadiosMuestra,
               vida \in vidas :
               Asignar(RespawnearEnemigo(Sesion, pos, radio, vida))
       ELSE Asignar(Sesion)
    /\ fase' = "fin"
    /\ UNCHANGED <<reloj, desde_dano, dt, retorno, mejoras_aplicadas>>

\* lines 278-281
VerificarFinJuego ==
    /\ fase = "fin"
    /\ Asignar(FinJuego(Sesion))
    /\ fase' = "monedas"
    /\ UNCHANGED <<reloj, desde_dano, dt, retorno, mejoras_aplicadas>>

\* line 284: _actualizar_monedas(dt)
ActualizarMonedas ==
    /\ fase = "monedas"
    /\ monedas' = [i \in 1..Len(monedas) |->
                      IF monedas[i].activo
                      THEN MonedaActualizar(monedas[i], dt)
                      ELSE monedas[i]]
    /\ fase' = "recoleccion"
    /\ UNCHANGED <<reloj, desde_dano, dt, retorno, mejoras_aplicadas, puntos, nivel_actual, enemigos_eliminados_nivel,
                   intervalo_enemigo, fondo_actual, jugando, game_over,
                   tiempo_desde_ultimo_dano, tiempo_enemigo, jugador,
                   proyectiles, enemigos>>

\* line 287
VerificarRecoleccionMonedas ==
    /\ fase = "recoleccion"
    /\ Asignar(RecoleccionDesde(Sesion, monedas, 1, 0))
    /\ mejoras_aplicadas' = LlamadasMejoraDesde(Sesion, monedas, 1)
    /\ fase' = "barrido"
    /\ UNCHANGED <<reloj, desde_dano, dt, retorno>>

\* seeded defect: the coin list is not swept
EliminarInactivosSinMonedas ==
    /\ fase = "barrido"
    /\ enemigos' = SoloActivos(enemigos)
    /\ proyectiles' = SoloActivos(proyectiles)
    /\ fase' = "reposo"
    /\ dt' = 0
    /\ mejoras_aplicadas' = 0
    /\ UNCHANGED <<reloj, desde_dano, retorno, puntos, nivel_actual, enemigos_eliminados_nivel,
                   intervalo_enemigo, fondo_actual, jugando, game_over,
                   tiempo_desde_ultimo_dano, tiempo_enemigo, jugador, monedas>>

\* lines 290-292, and the return of actualizar
EliminarInactivos ==
    /\ fase = "barrido"
    /\ enemigos' = SoloActivos(enemigos)
    /\ proyectiles' = SoloActivos(proyectiles)
    /\ monedas' = SoloActivos(monedas)
    /\ fase' = "reposo"
    /\ dt' = 0
    /\ mejoras_aplicadas' = 0
    /\ UNCHANGED <<reloj, desde_dano, retorno, puntos, nivel_actual, enemigos_eliminados_nivel,
                   intervalo_enemigo, fondo_actual, jugando, game_over,
                   tiempo_desde_ultimo_dano, tiempo_enemigo, jugador>>

\* the steps of a running call of actualizar that take no input
PasosSinEntrada ==
    \/ ActualizarObjetos
    \/ VerificarColisionJugadorEnemigo
    \/ VerificarFinJuego
    \/ ActualizarMonedas
    \/ VerificarRecoleccionMonedas
    \/ EliminarInactivos

Next ==
    \/ EventoQuit(FALSE)
    \/ EventoEscape(FALSE)
    \/ EventoReiniciar(Vidas, FALSE)
    \/ EventoDisparo(HayCupo, FALSE)
    \/ ActualizarRechazado(FALSE)
    \/ ActualizarDetenido(FALSE)
    \/ Actualizar(DTs, Vidas, MaxReloj)
    \/ VerificarColisionesProyectiles(TiposMuestra)
    \/ RespawnControlado(Vidas)
    \/ PasosSinEntrada

Spec == Init /\ [][Next]_vars

\* the long campaign: the same program, played with the narrower choices,
\* followed long enough for intervalo_enemigo to reach its floor
NextNiveles ==
    \/ EventoReiniciar(VidasNiveles, FALSE)
    \/ EventoDisparo(PantallaDespejada, FALSE)
    \/ Actualizar(DTsNiveles, VidasNiveles, MaxRelojNiveles)
    \/ VerificarColisionesProyectiles(TiposNiveles)
    \/ RespawnControlado(VidasNiveles)
    \/ PasosSinEntrada

SpecNiveles == InitNiveles /\ [][NextNiveles]_vars

\* the coins: the campaign's single shots, with coins of two kinds and with
\* a frame long enough for a coin to run out of its 10 s
NextMonedas ==
    \/ EventoReiniciar(VidasNiveles, FALSE)
    \/ EventoDisparo(PantallaDespejada, FALSE)
    \/ Actualizar(DTsMonedas, VidasNiveles, MaxRelojMonedas)
    \/ VerificarColisionesProyectiles(TiposMuestra)
    \/ RespawnControlado(VidasNiveles)
    \/ PasosSinEntrada

SpecMonedas == InitNiveles /\ [][NextMonedas]_vars

\* bursts of shots, with the narrower choices: two enemies can be killed in
\* one frame
NextRafagas ==
    \/ EventoReiniciar(VidasNiveles, FALSE)
    \/ EventoDisparo(EnRafaga, FALSE)
    \/ Actualizar(DTsNiveles, VidasNiveles, MaxReloj)
    \/ VerificarColisionesProyectiles(TiposNiveles)
    \/ RespawnControlado(VidasNiveles)
    \/ PasosSinEntrada

SpecRafagas == InitNiveles /\ [][NextRafagas]_vars

\* the first frames of the campaign, where a call of actualizar that has
\* started runs to its return and, while the session is running and
\* followed, actualizar keeps being called
PasosDeLlamada ==
    \/ VerificarColisionesProyectiles(TiposNiveles)
    \/ RespawnControlado(VidasNiveles)
    \/ PasosSinEntrada

NextPresencia ==
    \/ EventoDisparo(PantallaDespejada, FALSE)
    \/ Actualizar(DTsNiveles, VidasNiveles, MaxRelojPresencia)
    \/ PasosDeLlamada

SpecPresencia ==
    /\ InitNiveles
    /\ [][NextPresencia]_vars
    /\ WF_vars(PasosDeLlamada)
    /\ WF_vars(Actualizar(DTsNiveles, VidasNiveles, MaxRelojPresencia))

\* the events and the calls of actualizar with their outcome noted, played
\* with the narrower choices and with arguments of actualizar of every sort
NextEventos ==
    \/ EventoQuit(TRUE)
    \/ EventoEscape(TRUE)
    \/ EventoReiniciar(VidasNiveles, TRUE)
    \/ EventoDisparo(PantallaDespejada, TRUE)
    \/ ActualizarRechazado(TRUE)
    \/ ActualizarDetenido(TRUE)
    \/ Actualizar(DTsEventos, VidasNiveles, MaxReloj)
    \/ ActualizarNoFinito(VidasNiveles, MaxReloj)
    \/ VerificarColisionesProyectiles(TiposNiveles)
    \/ RespawnControlado(VidasNiveles)
    \/ PasosSinEntrada

SpecEventos == InitNiveles /\ [][NextEventos]_vars

\* the condition of the main loop of ejecutar: the loop goes on while it holds
BucleEjecutar == jugando \/ game_over

(***************************************************************************)
(* The entities on their own: a scene of figures built by their            *)
(* constructors, on which the methods of Figura and Moneda are called one  *)
(* at a time.  retorno holds the last call and what it returned.           *)
(***************************************************************************)
InitEntidades ==
    /\ fase = "entidades"
    /\ reloj = 0
    /\ desde_dano = -1
    /\ dt = 0
    /\ retorno = [op |-> "nada"]
    /\ mejoras_aplicadas = 0
    /\ puntos = PuntosIniciales
    /\ nivel_actual = 1
    /\ enemigos_eliminados_nivel = 0
    /\ intervalo_enemigo = IntervaloInicial
    /\ fondo_actual = 0
    /\ jugando = TRUE
    /\ game_over = FALSE
    /\ tiempo_desde_ultimo_dano = 0
    /\ tiempo_enemigo = 0
    /\ jugador = NuevoJugador(Punto(0).x, Punto(0).y)
    /\ proyectiles = <<>>
    /\ \E pos \in PosicionesEnemigo, radio \in RadiosEntidades, vida \in Vidas :
          enemigos = <<NuevoEnemigo(pos.x, pos.y, radio, vida)>>
    /\ \E pos \in PosicionesMoneda, tipo \in TiposMuestra,
          valor \in 1..ValorMonedaMaximo, vida \in VidasMoneda :
          monedas = <<[NuevaMoneda(pos.x, pos.y, tipo, valor)
                          EXCEPT !.tiempo_vida = vida]>>

\* what Figura.colision reads of a figure
Figura(f) == [x |-> f.x, y |-> f.y, radio |-> f.radio, activo |-> f.activo]
Escena == {Figura(jugador), Figura(enemigos[1]), Figura(monedas[1])}

\* a.colision(b) for two figures of the scene; the call of b.colision(a) on
\* the same scene is noted next to it
LlamarColision ==
    /\ fase = "entidades"
    /\ \E a \in Escena, b \in Escena :
          retorno' = [op |-> "colision", a |-> a, b |-> b,
                      valor |-> Colision(a, b), inverso |-> Colision(b, a)]
    /\ UNCHANGED <<fase, reloj, desde_dano, dt, mejoras_aplicadas, puntos,
                   nivel_actual, enemigos_eliminados_nivel, intervalo_enemigo,
                   fondo_actual, jugando, game_over, tiempo_desde_ultimo_dano,
                   tiempo_enemigo, jugador, proyectiles, enemigos, monedas>>

\* enemigo.recibir_dano(), which the controller calls on an enemy that
\* collides, that is on an active one
LlamarRecibirDano ==
    /\ fase = "entidades"
    /\ enemigos[1].activo
    /\ enemigos' = <<RecibirDano(enemigos[1]).enemigo>>
    /\ retorno' = [op |-> "recibir_dano",
                   letal |-> RecibirDano(enemigos[1]).letal]
    /\ UNCHANGED <<fase, reloj, desde_dano, dt, mejoras_aplicadas, puntos,
                   nivel_actual, enemigos_eliminados_nivel, intervalo_enemigo,
                   fondo_actual, jugando, game_over, tiempo_desde_ultimo_dano,
                   tiempo_enemigo, jugador, proyectiles, monedas>>

\* moneda.actualizar(dt) with dt > 0
LlamarMonedaActualizar ==
    /\ fase = "entidades"
    /\ \E d \in DTs :
          /\ d > 0
          /\ monedas' = <<MonedaActualizar(monedas[1], d)>>
    /\ retorno' = [op |-> "moneda_actualizar"]
    /\ UNCHANGED <<fase, reloj, desde_dano, dt, mejoras_aplicadas, puntos,
                   nivel_actual, enemigos_eliminados_nivel, intervalo_enemigo,
                   fondo_actual, jugando, game_over, tiempo_desde_ultimo_dano,
                   tiempo_enemigo, jugador, proyectiles, enemigos>>

\* moneda.recolectar(): the coin is marked and the dictionary is returned,
\* whatever the coin's flag was before the call
LlamarRecolectar ==
    /\ fase = "entidades"
    /\ monedas' = <<MonedaRecolectar(monedas[1]).moneda>>
    /\ retorno' = [op |-> "recolectar",
                   activa |-> monedas[1].activo,
                   tipo |-> MonedaRecolectar(monedas[1]).tipo,
                   valor |-> MonedaRecolectar(monedas[1]).valor,
                   puntos |-> MonedaRecolectar(monedas[1]).puntos]
    /\ UNCHANGED <<fase, reloj, desde_dano, dt, mejoras_aplicadas, puntos,
                   nivel_actual, enemigos_eliminados_nivel, intervalo_enemigo,
                   fondo_actual, jugando, game_over, tiempo_desde_ultimo_dano,
                   tiempo_enemigo, jugador, proyectiles, enemigos>>

NextEntidades ==
    \/ LlamarColision
    \/ LlamarRecibirDano
    \/ LlamarMonedaActualizar
    \/ LlamarRecolectar

SpecEntidades == InitEntidades /\ [][NextEntidades]_vars

(***************************************************************************)
(* The constructors and Proyectil.actualizar on their own: one projectile  *)
(* built near an edge of the screen or far from all of them, advanced one  *)
(* call at a time, and figures built with radii of either sign.            *)
(***************************************************************************)
\* starting points from which a projectile of VelocidadProyectil lands, one
\* call later, exactly on the margin of an edge or one pixel beyond it
PosicionesProyectil ==
    {[x |-> a, y |-> b] :
        a \in {100, VelocidadProyectil - RadioProyectil - 1,
                    VelocidadProyectil - RadioProyectil,
                    Ancho + RadioProyectil - VelocidadProyectil,
                    Ancho + RadioProyectil - VelocidadProyectil + 1},
        b \in {VelocidadProyectil - RadioProyectil - 1,
               VelocidadProyectil - RadioProyectil,
               Alto \div 2,
               Alto + RadioProyectil - VelocidadProyectil,
               Alto + RadioProyectil - VelocidadProyectil + 1}}

\* the raw directions handed to Proyectil.__init__
DireccionesProyectil ==
    {[x |-> 1, y |-> 0], [x |-> -1, y |-> 0], [x |-> 0, y |-> 1],
     [x |-> 0, y |-> -1], [x |-> 4, y |-> -3]}

\* the radii handed to Figura.__init__
RadiosConstruccion == {-5, 0, RadioProyectil, RadioMoneda}

InitFiguras ==
    /\ fase = "figuras"
    /\ reloj = 0
    /\ desde_dano = -1
    /\ dt = 0
    /\ retorno = [op |-> "nada"]
    /\ mejoras_aplicadas = 0
    /\ puntos = PuntosIniciales
    /\ nivel_actual = 1
    /\ enemigos_eliminados_nivel = 0
    /\ intervalo_enemigo = IntervaloInicial
    /\ fondo_actual = 0
    /\ jugando = TRUE
    /\ game_over = FALSE
    /\ tiempo_desde_ultimo_dano = 0
    /\ tiempo_enemigo = 0
    /\ jugador = NuevoJugador(Punto(0).x, Punto(0).y)
    /\ \E pos \in PosicionesProyectil, dir \in DireccionesProyectil :
          proyectiles = <<NuevoProyectil(pos.x, pos.y, dir.x, dir.y)>>
    /\ enemigos = <<>>
    /\ monedas = <<>>

\* Figura(pantalla, x, y, color, radio): the figure that the call returns
ConstruirFigura ==
    /\ fase = "figuras"
    /\ \E radio \in RadiosConstruccion :
          retorno' = [op |-> "figura",
                      figura |-> NuevaFigura(Punto(0).x, Punto(0).y, radio)]
    /\ UNCHANGED <<fase, reloj, desde_dano, dt, mejoras_aplicadas, puntos,
                   nivel_actual, enemigos_eliminados_nivel, intervalo_enemigo,
                   fondo_actual, jugando, game_over, tiempo_desde_ultimo_dano,
                   tiempo_enemigo, jugador, proyectiles, enemigos, monedas>>

\* proyectil.actualizar(d): a d that is not positive raises ValueError
\* before anything is read; dt keeps the d of the last call
LlamarProyectilActualizar ==
    /\ fase = "figuras"
    /\ \E d \in DTsEventos :
          /\ dt' = d
          /\ IF d <= 0
             THEN /\ retorno' = [op |-> "error"]
                  /\ UNCHANGED proyectiles
             ELSE /\ retorno' = [op |-> "proyectil_actualizar"]
                  /\ proyectiles' = <<ProyectilActualizar(proyectiles[1], d)>>
    /\ UNCHANGED <<fase, reloj, desde_dano, mejoras_aplicadas, puntos,
                   nivel_actual, enemigos_eliminados_nivel, intervalo_enemigo,
                   fondo_actual, jugando, game_over, tiempo_desde_ultimo_dano,
                   tiempo_enemigo, jugador, enemigos, monedas>>

NextFiguras ==
    \/ ConstruirFigura
    \/ LlamarProyectilActualizar

SpecFiguras == InitFiguras /\ [][NextFiguras]_vars

(***************************************************************************)
(* Figura.mantener_en_pantalla on its own: a figure built on a screen of   *)
(* some size, at some position and with some radius, on which the method   *)
(* is called up to MaxLlamadas times.  retorno holds the figure, its       *)
(* screen and the number of calls made.                                    *)
(***************************************************************************)
\* the game's screen, one narrower than the widest figure, one too small
\* for it both ways
TamanosPantalla ==
    {[ancho |-> Ancho, alto |-> Alto],
     [ancho |-> RadioFigura, alto |-> Alto],
     [ancho |-> 2 * RadioFigura - 10, alto |-> 2 * RadioFigura - 10]}

\* positions left of, on, inside, and right of (above, below) the band in
\* which a figure is whole on the game's screen
PosicionesPantalla ==
    {[x |-> a, y |-> b] :
        a \in {-40, 5, RadioMoneda, 22, Ancho \div 2, Ancho - RadioMoneda,
               Ancho + 30},
        b \in {-40, RadioMoneda, Alto \div 2, Alto - RadioMoneda, Alto + 40}}

RadiosPantalla == RadiosConstruccion \cup {RadioFigura}

InitPantalla ==
    /\ fase = "pantalla"
    /\ reloj = 0
    /\ desde_dano = -1
    /\ dt = 0
    /\ \E pos \in PosicionesPantalla, radio \in RadiosPantalla,
          t \in TamanosPantalla :
          retorno = [op |-> "figura", llamadas |-> 0, pantalla |-> t,
                     figura |-> NuevaFigura(pos.x, pos.y, radio)]
    /\ mejoras_aplicadas = 0
    /\ puntos = PuntosIniciales
    /\ nivel_actual = 1
    /\ enemigos_eliminados_nivel = 0
    /\ intervalo_enemigo = IntervaloInicial
    /\ fondo_actual = 0
    /\ jugando = TRUE
    /\ game_over = FALSE
    /\ tiempo_desde_ultimo_dano = 0
    /\ tiempo_enemigo = 0
    /\ jugador = NuevoJugador(Punto(0).x, Punto(0).y)
    /\ proyectiles = <<>>
    /\ enemigos = <<>>
    /\ monedas = <<>>

\* figura.mantener_en_pantalla()
LlamarMantenerEnPantalla ==
    /\ fase = "pantalla"
    /\ retorno.llamadas < MaxLlamadas
    /\ retorno' = [op |-> "mantener", llamadas |-> retorno.llamadas + 1,
                   pantalla |-> retorno.pantalla,
                   figura |-> MantenerEnPantalla(retorno.figura,
                                                 retorno.pantalla.ancho,
                                                 retorno.pantalla.alto)]
    /\ UNCHANGED <<fase, reloj, desde_dano, dt, mejoras_aplicadas, puntos,
                   nivel_actual, enemigos_eliminados_nivel, intervalo_enemigo,
                   fondo_actual, jugando, game_over, tiempo_desde_ultimo_dano,
                   tiempo_enemigo, jugador, proyectiles, enemigos, monedas>>

NextPantalla == LlamarMantenerEnPantalla

SpecPantalla == InitPantalla /\ [][NextPantalla]_vars

(***************************************************************************)
(* Observations of a step, used by the properties below                    *)
(***************************************************************************)
PasoColisiones == fase = "colisiones" /\ fase' = "dano"
PasoDano == fase = "dano" /\ fase' = "respawn"

\* the enemies the step killed, the projectiles it deactivated, the coins
\* it appended
Bajas == {j \in 1..Len(enemigos) : enemigos[j].activo /\ ~enemigos'[j].activo}
Desactivados ==
    {i \in 1..Len(proyectiles) : proyectiles[i].activo /\ ~proyectiles'[i].activo}
MonedasNuevas == (Len(monedas) + 1)..Len(monedas')

RECURSIVE SumaVida(_, _)
SumaVida(lista, j) ==
    IF j > Len(lista) THEN 0 ELSE lista[j].vida + SumaVida(lista, j + 1)

\* the enemies projectile i of the list overlaps
Alcanzados(i) ==
    {j \in 1..Len(enemigos) : Colision(proyectiles[i], enemigos[j])}
Primero(S) == CHOOSE j \in S : \A k \in S : j <= k

\* the active enemies that overlap the player
EnContacto == {j \in 1..Len(enemigos) : Colision(jugador, enemigos[j])}

\* the coins of the list the player collects: active and overlapping
Recogidas ==
    {i \in 1..Len(monedas) : monedas[i].activo /\ Colision(jugador, monedas[i])}

\* the points the coins numbered in S carry, from the i-th coin on
RECURSIVE PuntosDeMonedas(_, _)
PuntosDeMonedas(S, i) ==
    IF i > Len(monedas)
    THEN 0
    ELSE (IF i \in S /\ monedas[i].tipo_mejora = "puntos"
          THEN monedas[i].valor_mejora
          ELSE 0) + PuntosDeMonedas(S, i + 1)

\* the points of the coins the running call will collect: the coins that are
\* still active once advanced by dt and that overlap the player
RECURSIVE PuntosPendientes(_)
PuntosPendientes(i) ==
    IF i > Len(monedas)
    THEN 0
    ELSE (IF /\ monedas[i].activo
             /\ MonedaActualizar(monedas[i], dt).activo
             /\ Colision(jugador, monedas[i])
             /\ monedas[i].tipo_mejora = "puntos"
          THEN monedas[i].valor_mejora
          ELSE 0) + PuntosPendientes(i + 1)

\* the step leaves the session, its clock and the running call as they were
SinCambios ==
    UNCHANGED <<fase, reloj, desde_dano, dt, mejoras_aplicadas, puntos,
                nivel_actual, enemigos_eliminados_nivel, intervalo_enemigo,
                fondo_actual, jugando, game_over, tiempo_desde_ultimo_dano,
                tiempo_enemigo, jugador, proyectiles, enemigos, monedas>>

\* the least integer that is not below the distance of the centers of two
\* figures
RaizTecho(n) == IF Raiz(n) * Raiz(n) = n THEN Raiz(n) ELSE Raiz(n) + 1
DistanciaTecho(a, b) ==
    RaizTecho((a.x - b.x) * (a.x - b.x) + (a.y - b.y) * (a.y - b.y))

\* an inactive projectile lying on an enemy
Sobre(p, e) ==
    (p.x - e.x) * (p.x - e.x) + (p.y - e.y) * (p.y - e.y)
        <= (p.radio + e.radio) * (p.radio + e.radio)

C2_UnGolpePorProyectil ==
    [][/\ PasoColisiones =>
            /\ SumaVida(enemigos, 1) - SumaVida(enemigos', 1)
                  = Cardinality(Desactivados)
            /\ \A i \in 1..Len(proyectiles) :
                  /\ (\E j \in Alcanzados(i) : enemigos'[j].activo)
                        => ~proyectiles'[i].activo
                  /\ i \in Desactivados => Alcanzados(i) # {}
            /\ \A i \in Desactivados :
                  Desactivados = {i} =>
                     \A j \in 1..Len(enemigos) :
                        enemigos'[j].vida =
                           IF j = Primero(Alcanzados(i))
                           THEN enemigos[j].vida - 1
                           ELSE enemigos[j].vida
       /\ fase \notin {"reposo", "barrido"} =>
            \A i \in 1..Len(proyectiles) :
               ~proyectiles[i].activo => ~proyectiles'[i].activo
    ]_vars

\* a hit that was not lethal: the projectile is spent, the enemy lives on
C2_Testigo ==
    /\ fase = "dano"
    /\ \E i \in Inactivos(proyectiles), j \in Activos(enemigos) :
          /\ Sobre(proyectiles[i], enemigos[j])
          /\ enemigos[j].vida = 1

C4_SeparacionDeducciones ==
    [][PasoDano /\ puntos' < puntos =>
        desde_dano = -1 \/ desde_dano >= CooldownDano]_vars

\* inside the window after a deduction, an enemy overlaps the player and
\* the pass has deducted nothing
C4_Testigo ==
    /\ fase = "respawn"
    /\ desde_dano > 0
    /\ desde_dano < CooldownDano
    /\ EnContacto # {}

\* C5: the call of actualizar that sets game_over returns with game_over,
\* not jugando and puntos = 0.  (Only a call that began with jugando, hence
\* without game_over, reaches its last statement.)
C5_FinConCero ==
    [][fase = "barrido" /\ fase' = "reposo" /\ game_over' =>
        ~jugando' /\ puntos' = 0]_vars

\* C6: puntos >= 0 whenever no call of actualizar is running.
C6_PuntosNoNegativos == fase = "reposo" => puntos >= 0

\* a frame boundary after the score was depleted
C6_Testigo == fase = "reposo" /\ game_over /\ puntos = 0 /\ desde_dano = 0

\* C7: game_over becomes true only in the game-over check of a call of
\* actualizar that sees puntos <= 0, and becomes false only by
\* reiniciar_juego; between calls, while game_over holds, no event and no
\* call of actualizar changes puntos, nivel_actual, the enemies, the coins
\* or the flags, and no call gets past its first test.
C7_SoloReiniciarSaleDeGameOver ==
    [][/\ ~game_over /\ game_over' => fase = "fin" /\ puntos <= 0
       /\ game_over /\ ~game_over' =>
             /\ fase = "reposo"
             /\ \E vida \in Vidas : Sesion' = ReiniciarJuego(Sesion, vida)
       /\ game_over /\ game_over' /\ fase = "reposo" =>
             UNCHANGED <<fase, puntos, nivel_actual, enemigos, monedas,
                         jugando, game_over>>
    ]_vars

\* the game is over between two calls, with ticks left to play
C7_Testigo ==
    /\ fase = "reposo"
    /\ game_over
    /\ ~jugando
    /\ reloj < MaxReloj
    /\ Len(enemigos) > 0

\* C8: from every reachable state reiniciar_juego yields the session that
\* ControlJuego.__init__ builds: puntos 10, level 1, no kills, interval 5.0 s,
\* both timers 0, background 0, jugando, not game_over, no coins, no
\* projectiles, the player and one enemy at their starting places.
C8_ReiniciarComoConstruir ==
    \A vida \in Vidas : ReiniciarJuego(Sesion, vida) = NuevoControlJuego(vida)

\* a restart has just been made after a game in which the score was
\* depleted
C8_Testigo ==
    /\ fase = "reposo"
    /\ reloj = 0
    /\ desde_dano # -1
    /\ ~game_over
    /\ \E vida \in Vidas : Sesion = NuevoControlJuego(vida)

\* C9: the kills of a pass are counted into enemigos_eliminados_nivel and
\* every third one levels up exactly once: nivel_actual + 1, the counter
\* back to 0, intervalo_enemigo 0.5 s (one tick) lower but not below 2.0 s;
\* the first and second kill of a level change neither nivel_actual nor
\* intervalo_enemigo, and nothing but a kill or a restart changes them.
C9_TercerBaja ==
    [][/\ PasoColisiones =>
            /\ nivel_actual' = nivel_actual
                  + (enemigos_eliminados_nivel + Cardinality(Bajas))
                        \div EnemigosParaSiguienteNivel
            /\ enemigos_eliminados_nivel' =
                  (enemigos_eliminados_nivel + Cardinality(Bajas))
                      % EnemigosParaSiguienteNivel
            /\ intervalo_enemigo' =
                  Max(IntervaloMinimo,
                      intervalo_enemigo - (nivel_actual' - nivel_actual))
            /\ Cardinality(Bajas) = 1 =>
                  IF enemigos_eliminados_nivel = EnemigosParaSiguienteNivel - 1
                  THEN /\ nivel_actual' = nivel_actual + 1
                       /\ enemigos_eliminados_nivel' = 0
                  ELSE /\ nivel_actual' = nivel_actual
                       /\ intervalo_enemigo' = intervalo_enemigo
       /\ ~PasoColisiones /\ ~(game_over /\ ~game_over') =>
            UNCHANGED <<nivel_actual, intervalo_enemigo>>
    ]_vars

\* the third kill of a level has just been scored with the interval
\* already at its floor
C9_Testigo ==
    /\ fase = "dano"
    /\ Inactivos(enemigos) # {}
    /\ enemigos_eliminados_nivel = 0
    /\ nivel_actual > IntervaloInicial - IntervaloMinimo + 1
    /\ intervalo_enemigo = IntervaloMinimo

\* C10: always intervalo_enemigo = max(2.0, 5.0 - 0.5 * (nivel_actual - 1)),
\* in ticks max(4, 10 - (nivel_actual - 1)); hence it lies in [2.0, 5.0]; it
\* never increases except by reiniciar_juego.
C10_IntervaloPorNivel ==
    /\ [](/\ intervalo_enemigo =
                Max(IntervaloMinimo, IntervaloInicial - (nivel_actual - 1))
          /\ intervalo_enemigo >= IntervaloMinimo
          /\ intervalo_enemigo <= IntervaloInicial)
    /\ [][intervalo_enemigo' > intervalo_enemigo =>
             game_over /\ ~game_over']_vars

\* the level at which the formula's floor first applies
C10_Testigo ==
    /\ fase = "reposo"
    /\ nivel_actual = IntervaloInicial - IntervaloMinimo + 2
    /\ intervalo_enemigo = IntervaloMinimo

\* C11: the active enemies never exceed 5.  The list of enemies grows only
\* by one enemy at a time and only in three places: the time-based spawn at
\* the start of actualizar, with fewer than 3 active enemies before it and
\* the spawn timer at its interval; the replacement spawn, with an inactive
\* enemy in the list and fewer than 5 active ones; and the restart, which
\* leaves the starting enemy alone in the list.
C11_PoblacionAcotada ==
    [][/\ Cardinality(Activos(enemigos)) <= 5
       /\ Cardinality(Activos(enemigos')) <= 5
       /\ Len(enemigos') > Len(enemigos) =>
            \/ /\ fase = "reposo" /\ fase' = "objetos"
               /\ Cardinality(Activos(enemigos)) < 3
               /\ tiempo_enemigo + dt' >= intervalo_enemigo
               /\ Len(enemigos') = Len(enemigos) + 1
            \/ /\ fase = "respawn" /\ fase' = "fin"
               /\ Cardinality(Inactivos(enemigos)) > 0
               /\ Cardinality(Activos(enemigos)) < 5
               /\ Len(enemigos') = Len(enemigos) + 1
            \/ /\ fase = "reposo" /\ fase' = "reposo"
               /\ game_over /\ ~game_over'
               /\ Len(enemigos') = 1
       /\ (fase = "reposo" /\ fase' = "objetos"
              /\ Cardinality(Activos(enemigos)) >= 3) =>
            enemigos' = enemigos
       /\ (fase = "respawn" /\ Cardinality(Inactivos(enemigos)) = 0) =>
            enemigos' = enemigos]_vars

\* a call of actualizar has just refused the time-based spawn: the timer is
\* at its interval and three enemies are active
C11_Testigo ==
    /\ fase = "objetos"
    /\ Cardinality(Activos(enemigos)) = 3
    /\ tiempo_enemigo >= intervalo_enemigo

\* C12: the reward of a coin is applied at most once.  The pass of
\* _verificar_recoleccion_monedas calls aplicar_mejora once for every coin
\* that is active and overlaps the player, adds to puntos the value of each
\* of those coins of kind 'puntos' and nothing for the other kinds, and
\* takes exactly those coins out of the list, so that no later pass meets
\* them; a coin that is inactive changes nothing.  No other step of
\* actualizar applies an upgrade.
C12_RecompensaUnaVez ==
    [][/\ (fase = "recoleccion" /\ fase' = "barrido") =>
            /\ mejoras_aplicadas' = Cardinality(Recogidas)
            /\ puntos' = puntos + PuntosDeMonedas(Recogidas, 1)
            /\ monedas' = SelectSeq(monedas,
                              LAMBDA m : ~(m.activo /\ Colision(jugador, m)))
            /\ \A i \in 1..Len(monedas') :
                  ~(monedas'[i].activo /\ Colision(jugador', monedas'[i]))
       /\ ~(fase = "recoleccion" /\ fase' = "barrido") =>
            mejoras_aplicadas' \in {0, mejoras_aplicadas}]_vars

\* a pass has just collected a coin of kind 'puntos'
C12_Testigo ==
    /\ fase = "barrido"
    /\ mejoras_aplicadas = 1
    /\ monedas = <<>>
    /\ puntos > PuntosIniciales

\* C13 (as stated): Moneda.recolectar is guarded by the active flag, so a
\* call on a coin that is already inactive returns no reward.  The method
\* has no such guard: the call returns the coin's kind, value and points
\* again.
C13_RecolectarGuardado ==
    ~(/\ retorno.op = "recolectar"
      /\ ~retorno.activa
      /\ retorno.valor > 0)

\* C14: actualizar(dt) with dt <= 0 raises ValueError and leaves every field
\* of the session, its timers and its collections unchanged; no frame is
\* started with such an argument.
C14_NoPositivoRechazado ==
    [][/\ retorno'.op = "ValueError" => SinCambios
       /\ (fase = "reposo" /\ fase' = "objetos") => dt' > 0]_vars

\* a call was rejected in the middle of a game, with a projectile in flight
\* and the timers running
C14_Testigo ==
    /\ retorno.op = "ValueError"
    /\ jugando
    /\ reloj > 0
    /\ proyectiles # <<>>
    /\ tiempo_enemigo > 0
    /\ tiempo_desde_ultimo_dano > 0

\* C15 (as stated): actualizar rejects a non-finite dt, so no frame ever runs
\* with one.  The only test of the argument is dt <= 0, which positive
\* infinity passes: the frame runs with it.
C15_NoFinitoRechazado == ~(fase # "reposo" /\ dt >= Infinito)

\* C16: while jugando is false a call of actualizar with a valid dt returns
\* at once: timers, puntos, nivel_actual, the flags and the collections of
\* enemies, coins and projectiles are unchanged, and no frame is started.
C16_DetenidoSinEfecto ==
    [][/\ retorno'.op = "detenido" => (~jugando /\ SinCambios)
       /\ (fase = "reposo" /\ fase' = "objetos") => jugando]_vars

\* actualizar was called on the Game Over screen, with enemies in the list
C16_Testigo ==
    /\ retorno.op = "detenido"
    /\ game_over
    /\ ~jugando
    /\ enemigos # <<>>

\* C17: Figura.colision returns FALSE when either figure is inactive, and
\* otherwise TRUE exactly when the distance of the centers is at most the
\* sum of the radii; figures that just touch collide.
C17_ColisionPorDistancia ==
    retorno.op = "colision" =>
        retorno.valor =
            (/\ retorno.a.activo
             /\ retorno.b.activo
             /\ DistanciaTecho(retorno.a, retorno.b)
                    <= retorno.a.radio + retorno.b.radio)

\* two active figures that just touch were found to collide
C17_Testigo ==
    /\ retorno.op = "colision"
    /\ retorno.a.activo
    /\ retorno.b.activo
    /\ retorno.a # retorno.b
    /\ DistanciaTecho(retorno.a, retorno.b) = retorno.a.radio + retorno.b.radio
    /\ (retorno.a.x - retorno.b.x) * (retorno.a.x - retorno.b.x)
         + (retorno.a.y - retorno.b.y) * (retorno.a.y - retorno.b.y)
         = (retorno.a.radio + retorno.b.radio)
            * (retorno.a.radio + retorno.b.radio)
    /\ retorno.valor

\* C18: Figura.colision is symmetric, a.colision(b) = b.colision(a), and
\* pure: the call changes neither figure nor anything else of the scene.
C18_ColisionSimetricaPura ==
    [][retorno'.op = "colision" =>
          /\ retorno'.valor = retorno'.inverso
          /\ UNCHANGED <<jugador, proyectiles, enemigos, monedas, puntos>>]_vars

\* an active figure was asked about an inactive one lying on it
C18_Testigo ==
    /\ retorno.op = "colision"
    /\ retorno.a.activo
    /\ ~retorno.b.activo
    /\ Sobre(retorno.a, retorno.b)
    /\ ~retorno.valor
    /\ ~retorno.inverso

\* C19 (as stated): once QUIT or ESC has been processed the main loop of
\* ejecutar terminates, in every state.  On the Game Over screen it does
\* not: the event clears jugando only, and the loop goes on while game_over
\* holds.
C19_SalirTerminaBucle == retorno.op = "salir" => ~BucleEjecutar

\* C20: SPACE or ENTER takes effect only on the Game Over screen.  While
\* game_over is false the key changes nothing of the session; while it is
\* true the key restarts the game, which is then active: jugando holds and
\* game_over does not.
C20_ReinicioSoloEnGameOver ==
    [][/\ retorno'.op = "tecla_ignorada" => (~game_over /\ SinCambios)
       /\ retorno'.op = "reinicio" =>
            (game_over /\ jugando' /\ ~game_over')
       /\ (fase = "reposo" /\ fase' = "reposo" /\ ~game_over) =>
            (reloj' = reloj /\ enemigos' = enemigos /\ puntos' = puntos)]_vars

\* the key was pressed in the middle of a game, with the score already
\* lowered and the clock running, and nothing came of it
C20_Testigo ==
    /\ retorno.op = "tecla_ignorada"
    /\ jugando
    /\ reloj > 0
    /\ puntos < PuntosIniciales

\* C21: a left click received while game_over is true is ignored:
\* jugador.disparar is not called and the player's projectiles are as they
\* were, like everything else of the session; a click that does add a
\* projectile is made while game_over is false.
C21_DisparoIgnoradoEnGameOver ==
    [][/\ retorno'.op = "disparo_ignorado" => (game_over /\ SinCambios)
       /\ retorno'.op = "disparo" =>
            (~game_over /\ Len(proyectiles') = Len(proyectiles) + 1)
       /\ (fase = "reposo" /\ game_over /\ game_over') =>
            proyectiles' = proyectiles]_vars

\* the click was made on the Game Over screen
C21_Testigo ==
    /\ retorno.op = "disparo_ignorado"
    /\ game_over
    /\ ~jugando
    /\ puntos = 0

\* C22: between two calls of actualizar, so after every call that ran the
\* simulation, the call that ends the game included, the list of enemies,
\* the player's projectiles and the list of coins hold no inactive entity:
\* what a frame deactivates its sweep removes.
C22_SinInactivosTrasActualizar ==
    fase = "reposo" =>
        /\ Inactivos(enemigos) = {}
        /\ Inactivos(proyectiles) = {}
        /\ Inactivos(monedas) = {}

\* the call that ended the game has returned, after a game with a kill, and
\* has left an enemy in the list
C22_Testigo ==
    /\ fase = "reposo"
    /\ game_over
    /\ reloj > 0
    /\ enemigos_eliminados_nivel > 0
    /\ enemigos # <<>>

\* C23: the replacement spawn adds at most one enemy in a call of
\* actualizar.  It is made in one place of the call, after the contact test,
\* and there it appends exactly one active enemy if the list, not yet swept,
\* holds an inactive enemy and fewer than 5 active ones, and nothing
\* otherwise, however many enemies the frame killed; no later step of the
\* call adds an enemy.
C23_UnReemplazoPorLlamada ==
    [][/\ (fase = "respawn" /\ fase' = "fin") =>
            IF Cardinality(Inactivos(enemigos)) > 0
               /\ Cardinality(Activos(enemigos)) < 5
            THEN /\ Len(enemigos') = Len(enemigos) + 1
                 /\ SubSeq(enemigos', 1, Len(enemigos)) = enemigos
                 /\ enemigos'[Len(enemigos')].activo
            ELSE enemigos' = enemigos
       /\ (fase \notin {"reposo", "respawn"}) =>
            Len(enemigos') <= Len(enemigos)]_vars

\* two enemies were killed in the frame and one replacement was spawned
C23_Testigo ==
    /\ fase = "fin"
    /\ Cardinality(Inactivos(enemigos)) = 2
    /\ Cardinality(Activos(enemigos)) = 1
    /\ enemigos[Len(enemigos)].activo

\* C24: the time-based spawn of actualizar.  If tiempo_enemigo with dt
\* added is at least intervalo_enemigo and fewer than 3 enemies are active,
\* the call appends exactly one enemy and sets tiempo_enemigo to 0; the new
\* enemy is active, lies at least MargenRespawn inside every edge of the
\* screen and has its radius in Radios.  Otherwise the call appends no
\* enemy and the timer keeps the time added.
C24_AparicionPorTiempo ==
    [][(fase = "reposo" /\ fase' = "objetos") =>
          IF tiempo_enemigo + dt' >= intervalo_enemigo
             /\ Cardinality(Activos(enemigos)) < 3
          THEN /\ Len(enemigos') = Len(enemigos) + 1
               /\ SubSeq(enemigos', 1, Len(enemigos)) = enemigos
               /\ tiempo_enemigo' = 0
               /\ enemigos'[Len(enemigos')].activo
               /\ enemigos'[Len(enemigos')].x >= MargenRespawn
               /\ enemigos'[Len(enemigos')].x <= Ancho - MargenRespawn
               /\ enemigos'[Len(enemigos')].y >= MargenRespawn
               /\ enemigos'[Len(enemigos')].y <= Alto - MargenRespawn
               /\ enemigos'[Len(enemigos')].radio \in Radios
          ELSE /\ enemigos' = enemigos
               /\ tiempo_enemigo' =
                    Acumular(tiempo_enemigo, dt', IntervaloInicial)
               /\ tiempo_enemigo' > 0]_vars

\* the time-based spawn has just brought the active enemies to three
C24_Testigo ==
    /\ fase = "objetos"
    /\ tiempo_enemigo = 0
    /\ Len(enemigos) = 3
    /\ Cardinality(Activos(enemigos)) = 3

C26_FinTrasMonedas ==
    [][(fase = "fin" /\ ~game_over /\ game_over') =>
          puntos + PuntosPendientes(1) <= 0]_vars

\* C27: every coin a kill leaves has valor_mejora = min(3, nivel \div 2 + 1),
\* where nivel is nivel_actual at the moment of the kill, before the level
\* the kill itself may raise: for the k-th kill of a pass, the level before
\* the pass raised once for every three kills counted before that kill.
\* Hence every coin of the session has a value from 1 to 3.
C27_ValorDeMoneda ==
    [][/\ PasoColisiones =>
            \A i \in MonedasNuevas :
                monedas'[i].valor_mejora =
                    Min(ValorMonedaMaximo,
                        (nivel_actual
                           + (enemigos_eliminados_nivel + (i - Len(monedas)) - 1)
                                \div EnemigosParaSiguienteNivel) \div 2 + 1)
       /\ \A i \in 1..Len(monedas') :
            monedas'[i].valor_mejora \in 1..ValorMonedaMaximo]_vars

\* the kill that raised the level to 4 left a coin valued by level 3
C27_Testigo ==
    /\ fase = "dano"
    /\ nivel_actual = 4
    /\ enemigos_eliminados_nivel = 0
    /\ Len(monedas) = 1
    /\ monedas[1].valor_mejora = 2
    /\ monedas[1].tiempo_vida = VidaMoneda

\* C28: a coin is made with VidaMoneda of life.  The coin step of a frame
\* takes dt from the life of every active coin and deactivates exactly the
\* coins whose life is then 0 or less; the collection pass, which comes
\* after it, takes coins out of the list only if they are active, so that a
\* coin that ran out in the frame stays uncollected until the sweep removes
\* it; no other step of a frame changes a coin.
C28_VidaDeMoneda ==
    [][/\ PasoColisiones =>
            /\ SubSeq(monedas', 1, Len(monedas)) = monedas
            /\ \A i \in MonedasNuevas :
                  monedas'[i].activo /\ monedas'[i].tiempo_vida = VidaMoneda
       /\ (fase = "monedas" /\ fase' = "recoleccion") =>
            /\ Len(monedas') = Len(monedas)
            /\ \A i \in 1..Len(monedas) :
                  IF monedas[i].activo
                  THEN /\ monedas'[i].tiempo_vida = monedas[i].tiempo_vida - dt
                       /\ monedas'[i].activo = (monedas'[i].tiempo_vida > 0)
                  ELSE monedas'[i] = monedas[i]
       /\ (fase = "recoleccion" /\ fase' = "barrido") =>
            /\ SelectSeq(monedas', LAMBDA m : ~m.activo)
                  = SelectSeq(monedas, LAMBDA m : ~m.activo)
            /\ Len(monedas) - Len(monedas') = mejoras_aplicadas'
            /\ mejoras_aplicadas' <= Cardinality(Activos(monedas))
       /\ (fase \in {"objetos", "dano", "respawn", "fin"}) =>
            monedas' = monedas]_vars

\* a coin ran out under the player and the collection pass has left it
C28_Testigo ==
    /\ fase = "barrido"
    /\ mejoras_aplicadas = 0
    /\ Len(monedas) = 1
    /\ ~monedas[1].activo
    /\ monedas[1].tiempo_vida = 0
    /\ Sobre(jugador, monedas[1])

\* C29: a call of Proyectil.actualizar with a positive dt on an active
\* projectile moves it by direccion * velocidad * dt, takes dt from its
\* tiempo_vida, and leaves it inactive exactly when tiempo_vida is then 0 or
\* less or the new position is more than radio beyond an edge of the
\* screen; on an inactive projectile the call changes nothing.
C29_DesactivacionDeProyectil ==
    [][(fase = "figuras" /\ retorno'.op = "proyectil_actualizar") =>
          LET p == proyectiles[1]
              q == proyectiles'[1]
          IN  IF p.activo
              THEN /\ q.x * Escala = p.x * Escala + p.dx * VelocidadProyectil * dt'
                   /\ q.y * Escala = p.y * Escala + p.dy * VelocidadProyectil * dt'
                   /\ q.tiempo_vida = p.tiempo_vida - dt'
                   /\ q.dx = p.dx /\ q.dy = p.dy /\ q.radio = p.radio
                   /\ q.activo = ~(\/ q.tiempo_vida <= 0
                                   \/ q.x < 0 - q.radio
                                   \/ q.x > Ancho + q.radio
                                   \/ q.y < 0 - q.radio
                                   \/ q.y > Alto + q.radio)
              ELSE q = p]_vars

\* a projectile with time left went one pixel beyond the margin of the left
\* edge and is inactive
C29_Testigo ==
    /\ fase = "figuras"
    /\ retorno.op = "proyectil_actualizar"
    /\ ~proyectiles[1].activo
    /\ proyectiles[1].x = 0 - RadioProyectil - 1
    /\ proyectiles[1].tiempo_vida > 0

\* C30 (as the specification states it): every figure that a constructor
\* has returned has a positive radius.
C30_RadioPositivo ==
    retorno.op = "figura" => retorno.figura.radio > 0

\* C31 (as the specification states it): inside a call of actualizar no
\* step before the sweep at its end takes a member out of the list of
\* enemies, of projectiles or of coins.
C31_RemocionSoloEnBarrido ==
    [][(fase # "reposo" /\ fase # "barrido" /\ fase # "entidades"
          /\ fase # "figuras") =>
          /\ Len(enemigos') >= Len(enemigos)
          /\ Len(proyectiles') >= Len(proyectiles)
          /\ Len(monedas') >= Len(monedas)
    ]_vars

\* C32: fondo_actual is an index of the loaded backgrounds in every state;
\* a level-up moves it one further, but not past the last background; a
\* restart puts it back to 0; nothing else changes it.
C32_FondoEnRango ==
    [][/\ fondo_actual \in 0..(NumFondos - 1)
       /\ fondo_actual' \in 0..(NumFondos - 1)
       /\ nivel_actual' = nivel_actual + 1 =>
            fondo_actual' = IF fondo_actual = NumFondos - 1
                            THEN fondo_actual
                            ELSE fondo_actual + 1
       /\ (game_over /\ ~game_over') => fondo_actual' = 0
       /\ (nivel_actual' = nivel_actual /\ ~(game_over /\ ~game_over')) =>
            fondo_actual' = fondo_actual
       /\ nivel_actual' \in {nivel_actual, nivel_actual + 1, 1}]_vars

\* the level-up after the last background was reached has left the index
\* on the last background
C32_Testigo ==
    /\ fase = "dano"
    /\ nivel_actual = NumFondos + 1
    /\ enemigos_eliminados_nivel = 0
    /\ fondo_actual = NumFondos - 1
    /\ Inactivos(enemigos) # {}

C34_JugandoOFin == ~(jugando /\ game_over)

\* a restart on the Game Over screen has just turned both flags over
C34_Testigo ==
    /\ fase = "reposo"
    /\ retorno.op = "reinicio"
    /\ jugando
    /\ ~game_over
    /\ puntos = PuntosIniciales

\* C35: between two calls of actualizar the kills counted towards the next
\* level are fewer than EnemigosParaSiguienteNivel and not negative.  The
\* session starts with no kill, level 1 and the counter at 0; every pass
\* over the projectiles raises EnemigosParaSiguienteNivel * (nivel_actual -
\* 1) + enemigos_eliminados_nivel by the number of enemies it killed; a
\* restart puts the level at 1 and the counter at 0; no other step changes
\* either, and the level goes down only in a restart.
C35_CuentaDeBajas ==
    /\ nivel_actual = 1
    /\ enemigos_eliminados_nivel = 0
    /\ [][/\ fase' = "reposo" =>
                enemigos_eliminados_nivel' \in 0..(EnemigosParaSiguienteNivel - 1)
          /\ PasoColisiones =>
                EnemigosParaSiguienteNivel * (nivel_actual' - 1)
                      + enemigos_eliminados_nivel'
                  = EnemigosParaSiguienteNivel * (nivel_actual - 1)
                      + enemigos_eliminados_nivel + Cardinality(Bajas)
          /\ (game_over /\ ~game_over') =>
                nivel_actual' = 1 /\ enemigos_eliminados_nivel' = 0
          /\ (~PasoColisiones /\ ~(game_over /\ ~game_over')) =>
                UNCHANGED <<nivel_actual, enemigos_eliminados_nivel>>
          /\ nivel_actual' < nivel_actual => (game_over /\ ~game_over')
       ]_vars

\* eight kills since the start: two levels gained and two kills counted
C35_Testigo ==
    /\ fase = "reposo"
    /\ reloj > 0
    /\ nivel_actual = 3
    /\ enemigos_eliminados_nivel = EnemigosParaSiguienteNivel - 1

\* C36: a pass over the projectiles scores every enemy at most once: the
\* points and the coins it adds are one per enemy killed, and no enemy is
\* left with less than no health.  When the active projectiles that overlap
\* an enemy overlap no other enemy, as many of them as the enemy has health
\* are spent, the first ones of the list, and the others stay active.
C36_UnaVezPorEnemigo ==
    [][PasoColisiones =>
          /\ puntos' - puntos = Cardinality(Bajas)
          /\ Len(monedas') - Len(monedas) = Cardinality(Bajas)
          /\ \A j \in 1..Len(enemigos) :
                LET sobre == {i \in 1..Len(proyectiles) :
                                /\ proyectiles[i].activo
                                /\ Sobre(proyectiles[i], enemigos[j])}
                    solos == \A i \in sobre :
                                \A k \in 1..Len(enemigos) :
                                   (k # j /\ enemigos[k].activo)
                                      => ~Sobre(proyectiles[i], enemigos[k])
                IN  /\ enemigos'[j].vida >= 0
                    /\ (enemigos[j].activo /\ solos) =>
                          \A i \in sobre :
                             proyectiles'[i].activo =
                                (Cardinality({k \in sobre : k < i})
                                    >= enemigos[j].vida)]_vars

\* two projectiles lay on one enemy: the first killed it for one point and
\* one coin, the second is still active on top of the dead enemy
C36_Testigo ==
    /\ fase = "dano"
    /\ Len(proyectiles) = 2
    /\ ~proyectiles[1].activo
    /\ proyectiles[2].activo
    /\ Len(monedas) = 1
    /\ \E j \in Inactivos(enemigos) :
          /\ Sobre(proyectiles[1], enemigos[j])
          /\ Sobre(proyectiles[2], enemigos[j])
          /\ \A k \in Inactivos(enemigos) : k = j

\* C37: an entity that is inactive stays inactive, and as it is, for as
\* long as it is in its list: no step but the sweep and the restart, which
\* take entities out of the lists, changes an inactive enemy, projectile or
\* coin; the collection pass takes out active coins only; and the sweep
\* keeps exactly the entities that were active.
C37_ActivoMonotono ==
    [][IF game_over /\ ~game_over'
       THEN TRUE
       ELSE IF fase = "barrido"
       THEN /\ enemigos' = SelectSeq(enemigos, LAMBDA e : e.activo)
            /\ proyectiles' = SelectSeq(proyectiles, LAMBDA p : p.activo)
            /\ monedas' = SelectSeq(monedas, LAMBDA m : m.activo)
       ELSE /\ \A j \in 1..Len(enemigos) :
                  ~enemigos[j].activo =>
                      j <= Len(enemigos') /\ enemigos'[j] = enemigos[j]
            /\ \A i \in 1..Len(proyectiles) :
                  ~proyectiles[i].activo =>
                      i <= Len(proyectiles') /\ proyectiles'[i] = proyectiles[i]
            /\ IF fase = "recoleccion"
               THEN /\ SelectSeq(monedas', LAMBDA m : ~m.activo)
                         = SelectSeq(monedas, LAMBDA m : ~m.activo)
                    /\ \E quedan \in SUBSET Activos(monedas) :
                         SelectSeq(monedas', LAMBDA m : m.activo)
                            = [k \in 1..Cardinality(quedan) |->
                                 monedas[CHOOSE i \in quedan :
                                    Cardinality({h \in quedan : h < i}) = k - 1]]
               ELSE \A i \in 1..Len(monedas) :
                       ~monedas[i].activo =>
                           i <= Len(monedas') /\ monedas'[i] = monedas[i]]_vars

\* a coin that was collected with life left has been given another
\* actualizar and is still inactive
C37_Testigo ==
    /\ fase = "entidades"
    /\ retorno.op = "moneda_actualizar"
    /\ ~monedas[1].activo
    /\ monedas[1].tiempo_vida > 0

====
